---------------------------- MODULE Spec2Model ----------------------------
(***************************************************************************)
(* The SSH tunnel supervisor of src/main.py: MainWindow (the caller, on    *)
(* the GUI thread), SSHWorker (a QThread running run()), the child ssh     *)
(* process it spawns, and the queue of Qt signals that crosses from the    *)
(* worker thread to the GUI thread.                                        *)
(*                                                                         *)
(* Threads interleave at the granularity of one statement of run() and of  *)
(* stop(); a slot of MainWindow runs to completion on the GUI thread,      *)
(* except stop(), which blocks in QThread.wait(2000) while the worker      *)
(* thread keeps running.                                                   *)
(*                                                                         *)
(* And the update checks of src/proxy_app.py: compare_versions, the        *)
(* UpdateChecker and ManualUpdateChecker threads, and the slots of         *)
(* ProxyManager that receive their results; and enable_proxy and           *)
(* disable_proxy, which write the system proxy settings in the registry.   *)
(***************************************************************************)
EXTENDS Integers, Sequences, FiniteSets, TLC

\* ------------------------------------------------------------- bounds

\* Workers that start_connection creates in one run of the application.
MaxStarts == 2

\* The same, for the cases that take one more session to reach.
MoreStarts == MaxStarts + 1

\* Lines of diagnostics that the child ssh processes write, all together.
MaxLines == 2

Workers == 1..MoreStarts

\* Components of a version string given to compare_versions.
MaxParts == 4

\* Manual update checks that the user starts in one run of the application.
MaxChecks == 2

Checks == 1..MaxChecks

\* --------------------------------------------------- diagnostic lines

WarningLine == <<"W", "a", "r", "n", "i", "n", "g", ":", " ", "\n">>

DebugLine == <<"d", "e", "b", "u", "g", "1", "\n">>

\* A line with a byte that the text-mode pipe cannot decode.
BadLine == <<"\\xff", "\n">>

\* What the child may write on stderr, one line at a time, newline included.
LineSet == {WarningLine, DebugLine, BadLine}

AuthorizedKeysLine ==
    <<"a", "u", "t", "h", "o", "r", "i", "z", "e", "d", "_", "k", "e", "y", "s", "\n">>

ConnectingLine == <<"C", "o", "n", "n", "e", "c", "t", "i", "n", "g", " ", "\n">>

LowerCaseLine == <<"w", "a", "r", "n", "i", "n", "g", "\n">>

SplitLine == <<"W", "a", "r", "n", " ", "i", "n", "g", "\n">>

\* The same with lines for each word of the heuristic and near misses.
MoreLineSet == LineSet \cup {AuthorizedKeysLine, ConnectingLine, LowerCaseLine, SplitLine}

Whitespace == {" ", "\t", "\n", "\r"}

RECURSIVE rstrip(_)
rstrip(s) ==
    IF s = <<>> THEN <<>>
    ELSE IF s[Len(s)] \in Whitespace THEN rstrip(SubSeq(s, 1, Len(s) - 1))
    ELSE s

\* Python's `sub in s` on strings.
Contains(sub, s) ==
    \E i \in 1..(Len(s) - Len(sub) + 1) : SubSeq(s, i, i + Len(sub) - 1) = sub

PatWarning == <<"W", "a", "r", "n", "i", "n", "g">>

PatAuthorizedKeys ==
    <<"a", "u", "t", "h", "o", "r", "i", "z", "e", "d", "_", "k", "e", "y", "s">>

PatConnecting == <<"C", "o", "n", "n", "e", "c", "t", "i", "n", "g">>

LineMatches_OnlyWarning(text) == Contains(PatWarning, text)

\* The heuristic of SSHWorker.run that a line shows the tunnel is up.
LineMatches(text) ==
    \/ Contains(PatWarning, text)
    \/ Contains(PatAuthorizedKeys, text)
    \/ Contains(PatConnecting, text)

\* -------------------------------------------------------------- state

VARIABLES
    \* the environment
    env_creds,       \* AWS_ACCESS_KEY_ID and AWS_SECRET_ACCESS_KEY are set
    \* MainWindow
    worker,          \* MainWindow.worker: 0 is None, else the worker's id
    creds,           \* MainWindow.aws_creds: "none" (not initialized), "env", "form"
    connect_btn,     \* connect_btn.isEnabled()
    disconnect_btn,  \* disconnect_btn.isEnabled()
    mainpc,          \* where the GUI thread is: "idle", or inside SSHWorker.stop
    starts,          \* workers created so far
    \* SSHWorker, by worker id
    pc,              \* position of the worker thread in run()
    stop_requested,  \* SSHWorker._stop_requested
    proc,            \* SSHWorker._proc is not None
    w_creds,         \* SSHWorker.aws_creds: "none" or "env"
    line,            \* the loop variable `line` of run()
    rc,              \* the local rc of run(): "None" or the exit status
    running,         \* QThread.isRunning()
    region,          \* SSHWorker.region, and the three other arguments of its
    instance_id,     \* constructor: "" is the empty string, and what the
    key_path,        \* object holds once the thread has read the field for
    username,        \* the last time
    \* the child ssh process of each worker
    child,           \* "none", "alive", "exited"
    signalled,       \* SIGTERM has been sent to the child
    stderr,          \* lines written by the child and not yet read
    stderr_open,     \* the child still holds the write end of stderr
    written,         \* lines the children have written so far, all together
    \* Qt: signals emitted in the worker thread, queued for the GUI thread
    queue,
    \* history, by worker id; start_connection forgets the history of the
    \* workers whose thread has finished
    emitted,         \* the signals the worker has emitted, in order
    resolved,        \* how get_instance_public_dns ended: "none" before
    spawned,         \* how subprocess.Popen ended: "none" before
    early_stop,      \* stop() was first called before any connected signal
    unspawned_stop,  \* stop() was called before Popen had returned
    wrote,           \* the lines the worker's child has written, in order
    stop_returned,   \* a call of stop() on the worker has returned
    \* src/proxy_app.py: a call of compare_versions
    version1,        \* its arguments, each as the list version.split('.')
    version2,
    cmp_pc,          \* "idle", "call" before the call and "returned" after
    returned,        \* the value returned
    \* src/proxy_app.py: ProxyManager and its update checks
    skip_update_version,   \* the stored setting; <<"">> is the empty string
    auto_pc,               \* position of UpdateChecker.run
    manual_pc,             \* position of ManualUpdateChecker.run, by check
    manual_connected,      \* finished_check is connected to the slot, by check
    manual_update_thread,  \* ProxyManager._manual_update_thread: 0 is None
    wait_dialog,           \* ProxyManager._wait_dialog: 0 is None, else the check
    checks,                \* manual checks started so far
    update_queue,          \* signals of the two checkers queued for the GUI thread
    shown,                 \* history: the message boxes shown, in order
    cancelled,             \* history, by check: how the cancel found the thread
    \* src/proxy_app.py: ProxyManager and the Internet Settings registry key
    ProxyEnable,           \* the DWORD value ProxyEnable of the key
    ProxyServer,           \* the string value ProxyServer of the key
    proxy_enabled,         \* ProxyManager.proxy_enabled
    proxy_address,         \* f"{self.proxy_ip}:{self.proxy_port}"
    proxy_call             \* history: the last call of enable_proxy or disable_proxy

main_vars == <<worker, creds, connect_btn, disconnect_btn, mainpc, starts>>

field_vars == <<region, instance_id, key_path, username>>

worker_vars == <<pc, stop_requested, proc, w_creds, line, rc, running, field_vars>>

child_vars == <<child, signalled, stderr, stderr_open, written>>

hist_vars ==
    <<emitted, resolved, spawned, early_stop, unspawned_stop, wrote, stop_returned>>

compare_vars == <<version1, version2, cmp_pc, returned>>

update_vars ==
    <<skip_update_version, auto_pc, manual_pc, manual_connected, manual_update_thread,
      wait_dialog, checks, update_queue, shown, cancelled>>

registry_vars == <<ProxyEnable, ProxyServer, proxy_enabled, proxy_address, proxy_call>>

proxy_app_vars == <<compare_vars, update_vars, registry_vars>>

tunnel_vars == <<env_creds, main_vars, worker_vars, child_vars, queue, hist_vars>>

vars == <<tunnel_vars, proxy_app_vars>>

\* A signal: src is the emitting worker, kind is "log", "connected" or
\* "finished", tag is the message, ok the argument of connected, text the
\* diagnostic line a log carries.
Ev(src, kind, tag, ok, text) ==
    [src |-> src, kind |-> kind, tag |-> tag, ok |-> ok, text |-> text]

LogEv(w, tag) == Ev(w, "log", tag, FALSE, <<>>)

ConnectedEv(w, ok) == Ev(w, "connected", "connected", ok, <<>>)

FinishedEv(w) == Ev(w, "finished", "finished", FALSE, <<>>)

\* No connection has been asked for yet.
TunnelIdle ==
    /\ worker = 0
    /\ creds = "none"
    /\ connect_btn = TRUE
    /\ disconnect_btn = FALSE
    /\ mainpc = "idle"
    /\ starts = 0
    /\ pc = [w \in Workers |-> "none"]
    /\ stop_requested = [w \in Workers |-> FALSE]
    /\ proc = [w \in Workers |-> FALSE]
    /\ w_creds = [w \in Workers |-> "none"]
    /\ line = [w \in Workers |-> <<>>]
    /\ rc = [w \in Workers |-> "None"]
    /\ running = [w \in Workers |-> FALSE]
    /\ region = [w \in Workers |-> ""]
    /\ instance_id = [w \in Workers |-> ""]
    /\ key_path = [w \in Workers |-> ""]
    /\ username = [w \in Workers |-> ""]
    /\ child = [w \in Workers |-> "none"]
    /\ signalled = [w \in Workers |-> FALSE]
    /\ stderr = [w \in Workers |-> <<>>]
    /\ stderr_open = [w \in Workers |-> FALSE]
    /\ written = 0
    /\ queue = <<>>
    /\ emitted = [w \in Workers |-> <<>>]
    /\ resolved = [w \in Workers |-> "none"]
    /\ spawned = [w \in Workers |-> "none"]
    /\ early_stop = [w \in Workers |-> FALSE]
    /\ unspawned_stop = [w \in Workers |-> FALSE]
    /\ wrote = [w \in Workers |-> <<>>]
    /\ stop_returned = [w \in Workers |-> FALSE]

\* compare_versions is not being called.
CompareIdle ==
    /\ version1 = <<"">>
    /\ version2 = <<"">>
    /\ cmp_pc = "idle"
    /\ returned = 0

\* ProxyManager has not been constructed.
UpdateIdle ==
    /\ skip_update_version = <<"">>
    /\ auto_pc = "none"
    /\ manual_pc = [c \in Checks |-> "none"]
    /\ manual_connected = [c \in Checks |-> FALSE]
    /\ manual_update_thread = 0
    /\ wait_dialog = 0
    /\ checks = 0
    /\ update_queue = <<>>
    /\ shown = <<>>
    /\ cancelled = [c \in Checks |-> "no"]

\* The address ProxyManager starts with when nothing is stored.
DefaultAddress == "127.0.0.1:8080"

\* What proxy_call holds before the first call.
NoCall == [op |-> "none", failed |-> "none"]

\* ProxyManager has not been constructed: the proxy is off.
RegistryIdle ==
    /\ ProxyEnable = 0
    /\ ProxyServer = ""
    /\ proxy_enabled = FALSE
    /\ proxy_address = DefaultAddress
    /\ proxy_call = NoCall

\* src/main.py started, with or without credentials in the environment.
Init ==
    /\ env_creds \in BOOLEAN
    /\ TunnelIdle
    /\ CompareIdle
    /\ UpdateIdle
    /\ RegistryIdle


\* ---------------------------------------------------------- emitting

\* signal.emit(...) in the worker thread: the receiver lives in the GUI
\* thread, so the call is queued for it, in order.
Emit(w, e) ==
    /\ queue' = Append(queue, e)
    /\ emitted' = [emitted EXCEPT ![w] = Append(@, e)]

\* The signals of worker w still queued for the GUI thread.
Pending(w) == SelectSeq(queue, LAMBDA e : e.src = w)

\* The signals of worker w that have reached their slot, in order: the
\* queue is first in, first out.  The text of log_view is written from
\* these and read by nothing, so it is no variable of its own.
Delivered(w) == SubSeq(emitted[w], 1, Len(emitted[w]) - Len(Pending(w)))

\* The history h without the entries of the workers that have finished.
Forget(h, blank) == [w \in Workers |-> IF pc[w] \in {"done", "deleted"} THEN blank ELSE h[w]]

\* The thread of worker w has finished: it emits nothing more.
Finished(w) == pc[w] \in {"done", "deleted"}

\* ------------------------------------------- MainWindow.start_connection

StartRejected_AlwaysAccepts == FALSE

\* The guard of start_connection: a connection is already in progress.
StartRejected == worker /= 0

\* What the user has typed in the six fields, each after .strip(): ""
\* for a field left empty or blank, a value for a field filled in.
Forms ==
    [ access_key : {"", "AKIA"}, secret_key : {"", "secret"}, region : {"", "eu-west-1"},
      instance_id : {"", "i-0abc"}, key_path : {"", "key.pem"}, username : {"", "ec2-user"} ]

\* `if not access_key or not secret_key or not region`, negated
FormFilled(f) == f.access_key /= "" /\ f.secret_key /= "" /\ f.region /= ""

\* aws_creds after the credentials block of start_connection: the form's
\* values when the three fields are filled, else the environment's.
CredsAfterInit(form_filled) ==
    IF form_filled THEN "form"
    ELSE IF env_creds THEN "env" ELSE "none"

\* `if not instance_id or not key_path`
DetailsMissing(f) == f.instance_id = "" \/ f.key_path = ""

\* start_connection returns before it creates the worker: no credentials,
\* instance id or key path empty, or (checks_pass false) the key file is
\* absent or test_aws_connection returned False.
GivesUp(f, checks_pass) ==
    \/ CredsAfterInit(FormFilled(f)) = "none"
    \/ DetailsMissing(f)
    \/ ~checks_pass

\* start_connection refused by its first check: a message box, no change.
StartConnectionRejected ==
    /\ mainpc = "idle"
    /\ connect_btn
    /\ StartRejected
    /\ UNCHANGED vars

\* start_connection given up after the credentials block, which has
\* initialised aws_creds from the form or from the environment.
StartConnectionInvalid ==
    /\ mainpc = "idle"
    /\ connect_btn
    /\ ~StartRejected
    /\ \E form_filled \in BOOLEAN :
          /\ {f \in Forms : FormFilled(f) = form_filled
                                /\ (GivesUp(f, TRUE) \/ GivesUp(f, FALSE))} /= {}
          /\ creds' = CredsAfterInit(form_filled)
    /\ UNCHANGED <<proxy_app_vars, env_creds, worker, connect_btn, disconnect_btn, mainpc,
                   starts, worker_vars, child_vars, queue, hist_vars>>

\* start_connection to its end: the worker is created with the region,
\* the instance id, the key path and the user name of the form, connected
\* to the three slots and started.
StartConnectionStarted(limit) ==
    /\ mainpc = "idle"
    /\ connect_btn
    /\ ~StartRejected
    /\ starts < limit
    /\ \E f \in Forms :
          /\ ~GivesUp(f, TRUE)
          /\ creds' = CredsAfterInit(FormFilled(f))
          /\ region' = [region EXCEPT ![starts + 1] = f.region]
          /\ instance_id' = [instance_id EXCEPT ![starts + 1] = f.instance_id]
          /\ key_path' = [key_path EXCEPT ![starts + 1] = f.key_path]
          /\ username' = [username EXCEPT ![starts + 1] = f.username]
    /\ starts' = starts + 1
    /\ connect_btn' = FALSE
    /\ worker' = starts + 1
    /\ pc' = [pc EXCEPT ![starts + 1] = "resolve"]
    /\ running' = [running EXCEPT ![starts + 1] = TRUE]
    /\ emitted' = Forget(emitted, <<>>)
    /\ resolved' = Forget(resolved, "none")
    /\ spawned' = Forget(spawned, "none")
    /\ early_stop' = Forget(early_stop, FALSE)
    /\ unspawned_stop' = Forget(unspawned_stop, FALSE)
    /\ wrote' = Forget(wrote, <<>>)
    /\ stop_returned' = Forget(stop_returned, FALSE)
    /\ UNCHANGED <<proxy_app_vars, env_creds, disconnect_btn, mainpc, stop_requested, proc, w_creds,
                   line, rc, child_vars, queue>>

start_connection(limit) ==
    \/ StartConnectionRejected
    \/ StartConnectionInvalid
    \/ StartConnectionStarted(limit)


\* --------------------------- MainWindow.stop_connection, SSHWorker.stop

\* stop_connection with no worker held: it returns at once.
StopConnectionNoWorker ==
    /\ mainpc = "idle"
    /\ disconnect_btn
    /\ worker = 0
    /\ UNCHANGED vars

StopSetsFlag_Toggles(w) == stop_requested' = [stop_requested EXCEPT ![w] = ~@]

\* self._stop_requested = True
StopSetsFlag(w) == stop_requested' = [stop_requested EXCEPT ![w] = TRUE]

IsConnected(e) == e.kind = "connected"

\* stop_connection on a held worker, up to the first statement of
\* SSHWorker.stop.
StopConnectionBegin ==
    /\ mainpc = "idle"
    /\ disconnect_btn
    /\ worker /= 0
    /\ StopSetsFlag(worker)
    /\ mainpc' = "stop_terminate"
    /\ early_stop' = [early_stop EXCEPT ![worker] =
           @ \/ (~stop_requested[worker] /\ SelectSeq(emitted[worker], IsConnected) = <<>>)]
    /\ unspawned_stop' = [unspawned_stop EXCEPT ![worker] = @ \/ spawned[worker] = "none"]
    /\ UNCHANGED <<proxy_app_vars, env_creds, worker, creds, connect_btn, disconnect_btn,
                   starts, pc, proc, w_creds, line, rc, running, field_vars, child_vars, queue,
                   emitted, resolved, spawned, wrote, stop_returned>>

\* Popen.terminate(): SIGTERM to a child that has not exited yet.
terminate(w) ==
    IF child[w] = "alive" THEN [signalled EXCEPT ![w] = TRUE] ELSE signalled

\* How the call of terminate() ends: the signal is sent (or the child is
\* found to have exited), or the call raises, as kill() does for want of
\* permission.
TerminateOutcomes == {"sent", "raised"}

AfterTerminate_Surfaces(outcome) == IF outcome = "raised" THEN "idle" ELSE "stop_wait"

\* try: ... except Exception: pass, and on to self.wait(2000)
AfterTerminate(outcome) == "stop_wait"

\* if self._proc: self._proc.terminate()
StopTerminate ==
    /\ mainpc = "stop_terminate"
    /\ IF proc[worker]
       THEN \E outcome \in TerminateOutcomes :
               /\ signalled' = IF outcome = "sent" THEN terminate(worker) ELSE signalled
               /\ mainpc' = AfterTerminate(outcome)
       ELSE /\ UNCHANGED signalled
            /\ mainpc' = "stop_wait"
    /\ UNCHANGED <<proxy_app_vars, env_creds, worker, creds, connect_btn, disconnect_btn,
                   starts, worker_vars, child, stderr, stderr_open, written, queue,
                   hist_vars>>

\* The thread of worker w is inside a call that can last: the lookup over
\* the network, Popen, the read of a pipe that is empty and still open.
\* Every other statement of run() takes no time to speak of.
Blocked(w) ==
    \/ pc[w] \in {"resolve", "spawn"}
    \/ pc[w] = "read" /\ stderr[w] = <<>> /\ stderr_open[w]

StopWaitJoined_ClearsFlag ==
    /\ mainpc = "stop_wait"
    /\ ~running[worker]
    /\ mainpc' = "idle"
    /\ stop_requested' = [stop_requested EXCEPT ![worker] = FALSE]
    /\ stop_returned' = [stop_returned EXCEPT ![worker] = TRUE]
    /\ UNCHANGED <<proxy_app_vars, env_creds, worker, creds, connect_btn, disconnect_btn,
                   starts, pc, proc, w_creds, line, rc, running, field_vars, child_vars, queue,
                   emitted, resolved, spawned, early_stop, unspawned_stop, wrote>>

\* self.wait(2000) returns because the thread has finished.
StopWaitJoined ==
    /\ mainpc = "stop_wait"
    /\ ~running[worker]
    /\ mainpc' = "idle"
    /\ stop_returned' = [stop_returned EXCEPT ![worker] = TRUE]
    /\ UNCHANGED <<proxy_app_vars, env_creds, worker, creds, connect_btn, disconnect_btn,
                   starts, worker_vars, child_vars, queue, emitted, resolved, spawned,
                   early_stop, unspawned_stop, wrote>>

\* self.wait(2000) returns because the two seconds are over: the thread
\* has been held up all that time.
StopWaitTimeout ==
    /\ mainpc = "stop_wait"
    /\ running[worker]
    /\ Blocked(worker)
    /\ mainpc' = "idle"
    /\ stop_returned' = [stop_returned EXCEPT ![worker] = TRUE]
    /\ UNCHANGED <<proxy_app_vars, env_creds, worker, creds, connect_btn, disconnect_btn,
                   starts, worker_vars, child_vars, queue, emitted, resolved, spawned,
                   early_stop, unspawned_stop, wrote>>

stop_connection ==
    \/ StopConnectionNoWorker
    \/ StopConnectionBegin
    \/ StopTerminate
    \/ StopWaitJoined
    \/ StopWaitTimeout

\* ------------------------------------ the slots, run by the event loop

\* A queued log signal reaches append_log.
DeliverLog ==
    /\ mainpc = "idle"
    /\ queue /= <<>>
    /\ Head(queue).kind = "log"
    /\ queue' = Tail(queue)
    /\ UNCHANGED <<proxy_app_vars, env_creds, worker, creds, connect_btn, disconnect_btn, mainpc,
                   starts, worker_vars, child_vars, hist_vars>>

\* self.worker = None drops the only reference to the SSHWorker: the
\* object and its fields are gone.  Its child process is not touched, and
\* the signals it has queued are still delivered.  w = 0: nothing dropped.
DropWorker(w) ==
    IF w = 0
    THEN UNCHANGED <<pc, stop_requested, proc, w_creds, rc, field_vars>>
    ELSE /\ pc' = [pc EXCEPT ![w] = "deleted"]
         /\ stop_requested' = [stop_requested EXCEPT ![w] = FALSE]
         /\ proc' = [proc EXCEPT ![w] = FALSE]
         /\ w_creds' = [w_creds EXCEPT ![w] = "none"]
         /\ rc' = [rc EXCEPT ![w] = "None"]
         /\ region' = [region EXCEPT ![w] = ""]
         /\ instance_id' = [instance_id EXCEPT ![w] = ""]
         /\ key_path' = [key_path EXCEPT ![w] = ""]
         /\ username' = [username EXCEPT ![w] = ""]

WorkerIsOver_IgnoresRunning == worker /= 0

\* `self.worker is not None and not self.worker.isRunning()`
WorkerIsOver == worker /= 0 /\ ~running[worker]

\* The caller's control state: the reference and the two buttons.
ControlState ==
    [worker |-> worker, connect_btn |-> connect_btn, disconnect_btn |-> disconnect_btn]

OnConnectedControls_Toggles(ok, c, over) ==
    IF ok
    THEN [c EXCEPT !.connect_btn = FALSE, !.disconnect_btn = ~c.disconnect_btn]
    ELSE [worker |-> IF over THEN 0 ELSE c.worker,
          connect_btn |-> TRUE, disconnect_btn |-> FALSE]

\* What the body of on_connected(ok) makes of the control state c, over
\* being the value of its test on the worker.
OnConnectedControls(ok, c, over) ==
    IF ok
    THEN [c EXCEPT !.connect_btn = FALSE, !.disconnect_btn = TRUE]
    ELSE [worker |-> IF over THEN 0 ELSE c.worker,
          connect_btn |-> TRUE, disconnect_btn |-> FALSE]

\* MainWindow.on_connected(ok), for the signal e.
on_connected(e) ==
    LET after == OnConnectedControls(e.ok, ControlState, WorkerIsOver)
    IN  /\ connect_btn' = after.connect_btn
        /\ disconnect_btn' = after.disconnect_btn
        /\ worker' = after.worker
        /\ DropWorker(IF after.worker = worker THEN 0 ELSE worker)

DeliverConnected ==
    /\ mainpc = "idle"
    /\ queue /= <<>>
    /\ Head(queue).kind = "connected"
    /\ on_connected(Head(queue))
    /\ queue' = Tail(queue)
    /\ UNCHANGED <<proxy_app_vars, env_creds, creds, mainpc, starts, line, running, child_vars,
                   hist_vars>>

\* MainWindow.on_finished, for the signal e.
on_finished(e) ==
    IF WorkerIsOver
    THEN /\ worker' = 0
         /\ connect_btn' = TRUE
         /\ disconnect_btn' = FALSE
         /\ DropWorker(worker)
    ELSE /\ UNCHANGED <<worker, connect_btn, disconnect_btn>>
         /\ DropWorker(0)

DeliverFinished ==
    /\ mainpc = "idle"
    /\ queue /= <<>>
    /\ Head(queue).kind = "finished"
    /\ on_finished(Head(queue))
    /\ queue' = Tail(queue)
    /\ UNCHANGED <<proxy_app_vars, env_creds, creds, mainpc, starts, line, running, child_vars,
                   hist_vars>>

Deliver ==
    \/ DeliverLog
    \/ DeliverConnected
    \/ DeliverFinished


\* ------------------------------------------------------ SSHWorker.run

\* What a step of the worker thread leaves alone besides its own fields.
ThreadFrame ==
    UNCHANGED <<proxy_app_vars, env_creds, main_vars, stop_requested, early_stop, unspawned_stop,
                wrote, stop_returned>>

\* The same for a step that is neither the lookup nor the Popen call.
WorkerFrame == ThreadFrame /\ UNCHANGED <<resolved, spawned>>

Goto(w, label) == pc' = [pc EXCEPT ![w] = label]

NoEmit == UNCHANGED <<queue, emitted>>

\* The ways get_instance_public_dns can end: get_ec2_client raises for
\* want of credentials, describe_instances raises, its answer holds no
\* reservation, no instance, no public DNS name, or the name is found.
ResolveOutcomes ==
    {"ok", "uninitialised", "raise", "no_reservation", "no_instance", "no_dns"}

\* The line get_instance_public_dns logs before it returns None.
ResolveLog(outcome) ==
    CASE outcome = "no_reservation" -> "No se encontro la instancia"
      [] outcome = "no_instance" -> "No se encontro la instancia"
      [] outcome = "no_dns" -> "La instancia no tiene un DNS publico"
      [] OTHER -> "Error al obtener DNS publico"

ResolveFailed_GoesOn(outcome) == FALSE

\* `if not public_dns` in run()
ResolveFailed(outcome) == outcome /= "ok"

\* public_dns = self.get_instance_public_dns(): the worker's own
\* credentials manager is initialised from the environment; without
\* credentials get_ec2_client raises, which is caught like a failed lookup.
\* The lookup is the one reader of instance_id, and region has none; when
\* the lookup fails nothing reads key_path and username either.
Resolve(w) ==
    /\ pc[w] = "resolve"
    /\ w_creds' = [w_creds EXCEPT ![w] = IF env_creds THEN "env" ELSE "none"]
    /\ \E outcome \in ResolveOutcomes :
          /\ env_creds <=> outcome /= "uninitialised"
          /\ resolved' = [resolved EXCEPT ![w] = outcome]
          /\ IF ResolveFailed(outcome)
             THEN /\ Emit(w, LogEv(w, ResolveLog(outcome)))
                  /\ Goto(w, "resolve_failed")
                  /\ key_path' = [key_path EXCEPT ![w] = ""]
                  /\ username' = [username EXCEPT ![w] = ""]
             ELSE /\ NoEmit
                  /\ Goto(w, "log_connecting")
                  /\ UNCHANGED <<key_path, username>>
    /\ region' = [region EXCEPT ![w] = ""]
    /\ instance_id' = [instance_id EXCEPT ![w] = ""]
    /\ UNCHANGED <<proc, line, rc, running, child_vars, spawned>>
    /\ ThreadFrame

ResolveFailedEmit_FallsThrough(w) ==
    /\ pc[w] = "resolve_failed"
    /\ Emit(w, ConnectedEv(w, FALSE))
    /\ Goto(w, "log_connecting")
    /\ UNCHANGED <<proc, w_creds, field_vars, line, rc, running, child_vars>>
    /\ WorkerFrame

\* self.connected.emit(False); return
ResolveFailedEmit(w) ==
    /\ pc[w] = "resolve_failed"
    /\ Emit(w, ConnectedEv(w, FALSE))
    /\ Goto(w, "return")
    /\ UNCHANGED <<proc, w_creds, field_vars, line, rc, running, child_vars>>
    /\ WorkerFrame

\* self.log.emit(f"Conectando a {public_dns}...")
LogConnecting(w) ==
    /\ pc[w] = "log_connecting"
    /\ Emit(w, LogEv(w, "Conectando a ..."))
    /\ Goto(w, "log_starting")
    /\ UNCHANGED <<proc, w_creds, field_vars, line, rc, running, child_vars>>
    /\ WorkerFrame

\* self.log.emit("Iniciando proceso SSH...")
LogStarting(w) ==
    /\ pc[w] = "log_starting"
    /\ Emit(w, LogEv(w, "Iniciando proceso SSH..."))
    /\ Goto(w, "spawn")
    /\ UNCHANGED <<proc, w_creds, field_vars, line, rc, running, child_vars>>
    /\ WorkerFrame

SpawnOutcomes == {"ok", "notfound", "oserror"}

\* subprocess.Popen(cmd, ...): the child runs, or Popen raises
\* FileNotFoundError, or another exception.  cmd is the last reader of
\* key_path and username.
Spawn(w) ==
    /\ pc[w] = "spawn"
    /\ \E outcome \in SpawnOutcomes :
        /\ spawned' = [spawned EXCEPT ![w] = outcome]
        /\ CASE outcome = "ok" ->
                 /\ child' = [child EXCEPT ![w] = "alive"]
                 /\ stderr_open' = [stderr_open EXCEPT ![w] = TRUE]
                 /\ Goto(w, "store_proc")
            [] outcome = "notfound" ->
                 /\ UNCHANGED <<child, stderr_open>>
                 /\ Goto(w, "notfound_log")
            [] OTHER ->
                 /\ UNCHANGED <<child, stderr_open>>
                 /\ Goto(w, "exc_log")
    /\ NoEmit
    /\ key_path' = [key_path EXCEPT ![w] = ""]
    /\ username' = [username EXCEPT ![w] = ""]
    /\ UNCHANGED <<proc, w_creds, line, rc, running, region, instance_id, signalled,
                   stderr, written, resolved>>
    /\ ThreadFrame

\* self._proc = <the Popen object>
StoreProc(w) ==
    /\ pc[w] = "store_proc"
    /\ proc' = [proc EXCEPT ![w] = TRUE]
    /\ Goto(w, "read")
    /\ NoEmit
    /\ UNCHANGED <<w_creds, field_vars, line, rc, running, child_vars>>
    /\ WorkerFrame

\* The text-mode reader can decode the bytes of line l.
Decodable(l) == l /= BadLine

ReadLine_TakesLast(w) ==
    /\ pc[w] = "read"
    /\ stderr[w] /= <<>>
    /\ Decodable(stderr[w][Len(stderr[w])])
    /\ line' = [line EXCEPT ![w] = stderr[w][Len(stderr[w])]]
    /\ stderr' = [stderr EXCEPT ![w] = SubSeq(@, 1, Len(@) - 1)]
    /\ Goto(w, "check_stop")
    /\ NoEmit
    /\ UNCHANGED <<proc, w_creds, field_vars, rc, running, child, signalled, stderr_open, written>>
    /\ WorkerFrame

\* for line in self._proc.stderr: the next line
ReadLine(w) ==
    /\ pc[w] = "read"
    /\ stderr[w] /= <<>>
    /\ Decodable(Head(stderr[w]))
    /\ line' = [line EXCEPT ![w] = Head(stderr[w])]
    /\ stderr' = [stderr EXCEPT ![w] = Tail(@)]
    /\ Goto(w, "check_stop")
    /\ NoEmit
    /\ UNCHANGED <<proc, w_creds, field_vars, rc, running, child, signalled, stderr_open, written>>
    /\ WorkerFrame

\* for line in self._proc.stderr: end of stream
ReadEof(w) ==
    /\ pc[w] = "read"
    /\ stderr[w] = <<>>
    /\ ~stderr_open[w]
    /\ Goto(w, "after_loop")
    /\ NoEmit
    /\ UNCHANGED <<proc, w_creds, field_vars, line, rc, running, child_vars>>
    /\ WorkerFrame

\* for line in self._proc.stderr: the read raises UnicodeDecodeError
ReadError(w) ==
    /\ pc[w] = "read"
    /\ stderr[w] /= <<>>
    /\ ~Decodable(Head(stderr[w]))
    /\ stderr' = [stderr EXCEPT ![w] = Tail(@)]
    /\ Goto(w, "exc_log")
    /\ NoEmit
    /\ UNCHANGED <<proc, w_creds, field_vars, line, rc, running, child, signalled, stderr_open,
                   written>>
    /\ WorkerFrame

\* if self._stop_requested: break
CheckStopTarget(w) == IF stop_requested[w] THEN "after_loop" ELSE "emit_log"

CheckStop(w) ==
    /\ pc[w] = "check_stop"
    /\ Goto(w, CheckStopTarget(w))
    /\ NoEmit
    /\ UNCHANGED <<proc, w_creds, field_vars, line, rc, running, child_vars>>
    /\ WorkerFrame

\* text = line.rstrip(); self.log.emit(f"SSH: {text}")
EmitSshLog(w) ==
    /\ pc[w] = "emit_log"
    /\ Emit(w, Ev(w, "log", "SSH: ", FALSE, rstrip(line[w])))
    /\ Goto(w, "classify")
    /\ UNCHANGED <<proc, w_creds, field_vars, line, rc, running, child_vars>>
    /\ WorkerFrame

Classify_OncePerSession(w) ==
    /\ pc[w] = "classify"
    /\ IF LineMatches(rstrip(line[w])) /\ \A i \in 1..Len(emitted[w]) : ~emitted[w][i].ok
       THEN Emit(w, ConnectedEv(w, TRUE))
       ELSE NoEmit
    /\ line' = [line EXCEPT ![w] = <<>>]
    /\ Goto(w, "read")
    /\ UNCHANGED <<proc, w_creds, field_vars, rc, running, child_vars>>
    /\ WorkerFrame

\* if "Warning" in text or ...: self.connected.emit(True)
\* (the loop variable is dead from here to the next read)
Classify(w) ==
    /\ pc[w] = "classify"
    /\ IF LineMatches(rstrip(line[w]))
       THEN Emit(w, ConnectedEv(w, TRUE))
       ELSE NoEmit
    /\ line' = [line EXCEPT ![w] = <<>>]
    /\ Goto(w, "read")
    /\ UNCHANGED <<proc, w_creds, field_vars, rc, running, child_vars>>
    /\ WorkerFrame

AfterLoop_IgnoresFlag(w) ==
    /\ pc[w] = "after_loop"
    /\ Goto(w, "poll")
    /\ line' = [line EXCEPT ![w] = <<>>]
    /\ NoEmit
    /\ UNCHANGED <<proc, w_creds, field_vars, rc, running, child_vars>>
    /\ WorkerFrame

\* if not self._stop_requested:
AfterLoop(w) ==
    /\ pc[w] = "after_loop"
    /\ Goto(w, IF stop_requested[w] THEN "return" ELSE "poll")
    /\ line' = [line EXCEPT ![w] = <<>>]
    /\ NoEmit
    /\ UNCHANGED <<proc, w_creds, field_vars, rc, running, child_vars>>
    /\ WorkerFrame

\* Exit statuses of ssh: success, failure, and after SIGTERM either the
\* signal's status or that of ssh's own handler.
ExitCodes(w) == IF signalled[w] THEN {"-15", "255"} ELSE {"0", "255"}

\* rc = self._proc.poll(); if rc is None:
Poll(w) ==
    /\ pc[w] = "poll"
    /\ IF child[w] = "alive"
       THEN /\ Goto(w, "emit_fallback")
            /\ UNCHANGED rc
       ELSE /\ Goto(w, "log_rc")
            /\ \E status \in ExitCodes(w) : rc' = [rc EXCEPT ![w] = status]
    /\ NoEmit
    /\ UNCHANGED <<proc, w_creds, field_vars, line, running, child_vars>>
    /\ WorkerFrame

EmitFallback_Fails(w) ==
    /\ pc[w] = "emit_fallback"
    /\ Emit(w, ConnectedEv(w, FALSE))
    /\ Goto(w, "return")
    /\ UNCHANGED <<proc, w_creds, field_vars, line, rc, running, child_vars>>
    /\ WorkerFrame

\* self.connected.emit(True), the fallback
EmitFallback(w) ==
    /\ pc[w] = "emit_fallback"
    /\ Emit(w, ConnectedEv(w, TRUE))
    /\ Goto(w, "return")
    /\ UNCHANGED <<proc, w_creds, field_vars, line, rc, running, child_vars>>
    /\ WorkerFrame

RECURSIVE Concat(_)
Concat(ls) == IF ls = <<>> THEN <<>> ELSE Head(ls) \o Concat(Tail(ls))

RECURSIVE lstrip(_)
lstrip(s) ==
    IF s = <<>> THEN <<>>
    ELSE IF Head(s) \in Whitespace THEN lstrip(Tail(s))
    ELSE s

\* str.strip()
strip(s) == lstrip(rstrip(s))

\* f"SSH finalizó (rc={rc}): "
RcLog(status) ==
    CASE status = "0" -> "SSH finalizo (rc=0): "
      [] status = "255" -> "SSH finalizo (rc=255): "
      [] OTHER -> "SSH finalizo (rc=-15): "

\* err = self._proc.stderr.read(); self.log.emit(f"SSH finalizó (rc={rc}): {err.strip()}")
\* read() returns what is left of the stream once the write end is closed.
LogRc(w) ==
    /\ pc[w] = "log_rc"
    /\ ~stderr_open[w]
    /\ Emit(w, Ev(w, "log", RcLog(rc[w]), FALSE, strip(Concat(stderr[w]))))
    /\ stderr' = [stderr EXCEPT ![w] = <<>>]
    /\ Goto(w, "rc_false")
    /\ UNCHANGED <<proc, w_creds, field_vars, line, rc, running, child, signalled, stderr_open,
                   written>>
    /\ WorkerFrame

\* self.connected.emit(False), after the exit-code line
RcFalse(w) ==
    /\ pc[w] = "rc_false"
    /\ Emit(w, ConnectedEv(w, FALSE))
    /\ Goto(w, "return")
    /\ UNCHANGED <<proc, w_creds, field_vars, line, rc, running, child_vars>>
    /\ WorkerFrame

NotFoundLog_Silent(w) ==
    /\ pc[w] = "notfound_log"
    /\ NoEmit
    /\ Goto(w, "notfound_false")
    /\ UNCHANGED <<proc, w_creds, field_vars, line, rc, running, child_vars>>
    /\ WorkerFrame

\* except FileNotFoundError: self.log.emit("Error: 'ssh' no se encuentra en PATH. ...")
NotFoundLog(w) ==
    /\ pc[w] = "notfound_log"
    /\ Emit(w, LogEv(w, "Error: 'ssh' no se encuentra en PATH."))
    /\ Goto(w, "notfound_false")
    /\ UNCHANGED <<proc, w_creds, field_vars, line, rc, running, child_vars>>
    /\ WorkerFrame

\* except FileNotFoundError: self.connected.emit(False)
NotFoundFalse(w) ==
    /\ pc[w] = "notfound_false"
    /\ Emit(w, ConnectedEv(w, FALSE))
    /\ Goto(w, "return")
    /\ UNCHANGED <<proc, w_creds, field_vars, line, rc, running, child_vars>>
    /\ WorkerFrame

ExcLog_Silent(w) ==
    /\ pc[w] = "exc_log"
    /\ NoEmit
    /\ Goto(w, "exc_false")
    /\ UNCHANGED <<proc, w_creds, field_vars, line, rc, running, child_vars>>
    /\ WorkerFrame

\* except Exception as e: self.log.emit(f"Error inesperado en SSHWorker: {e}")
ExcLog(w) ==
    /\ pc[w] = "exc_log"
    /\ Emit(w, LogEv(w, "Error inesperado en SSHWorker"))
    /\ Goto(w, "exc_false")
    /\ UNCHANGED <<proc, w_creds, field_vars, line, rc, running, child_vars>>
    /\ WorkerFrame

ExcFalse_Silent(w) ==
    /\ pc[w] = "exc_false"
    /\ NoEmit
    /\ Goto(w, "return")
    /\ UNCHANGED <<proc, w_creds, field_vars, line, rc, running, child_vars>>
    /\ WorkerFrame

\* except Exception as e: self.connected.emit(False)
ExcFalse(w) ==
    /\ pc[w] = "exc_false"
    /\ Emit(w, ConnectedEv(w, FALSE))
    /\ Goto(w, "return")
    /\ UNCHANGED <<proc, w_creds, field_vars, line, rc, running, child_vars>>
    /\ WorkerFrame

Return_NoFinished(w) ==
    /\ pc[w] = "return"
    /\ running' = [running EXCEPT ![w] = FALSE]
    /\ NoEmit
    /\ Goto(w, "done")
    /\ stderr' = [stderr EXCEPT ![w] = <<>>]
    /\ stderr_open' = [stderr_open EXCEPT ![w] = FALSE]
    /\ UNCHANGED <<proc, w_creds, field_vars, line, rc, child, signalled, written>>
    /\ WorkerFrame

\* run() returns: QThread reports the thread as no longer running and
\* emits finished.  Nothing reads the child's stderr from here on: the
\* pipe (the lines left in it, whether the child still holds it) is
\* forgotten.
Return(w) ==
    /\ pc[w] = "return"
    /\ running' = [running EXCEPT ![w] = FALSE]
    /\ Emit(w, FinishedEv(w))
    /\ Goto(w, "done")
    /\ stderr' = [stderr EXCEPT ![w] = <<>>]
    /\ stderr_open' = [stderr_open EXCEPT ![w] = FALSE]
    /\ UNCHANGED <<proc, w_creds, field_vars, line, rc, child, signalled, written>>
    /\ WorkerFrame

run(w) ==
    \/ Resolve(w)
    \/ ResolveFailedEmit(w)
    \/ LogConnecting(w)
    \/ LogStarting(w)
    \/ Spawn(w)
    \/ StoreProc(w)
    \/ ReadLine(w)
    \/ ReadEof(w)
    \/ ReadError(w)
    \/ CheckStop(w)
    \/ EmitSshLog(w)
    \/ Classify(w)
    \/ AfterLoop(w)
    \/ Poll(w)
    \/ EmitFallback(w)
    \/ LogRc(w)
    \/ RcFalse(w)
    \/ NotFoundLog(w)
    \/ NotFoundFalse(w)
    \/ ExcLog(w)
    \/ ExcFalse(w)
    \/ Return(w)

\* ------------------------------------------------ the child ssh process

ChildFrame ==
    UNCHANGED <<proxy_app_vars, env_creds, main_vars, worker_vars, queue, emitted,
                resolved, spawned,
                early_stop, unspawned_stop, stop_returned>>

\* The child writes one line of diagnostics.  (What it writes once the
\* worker thread has finished is read by nobody.)
ChildWriteFrom(w, lines) ==
    /\ child[w] = "alive"
    /\ running[w]
    /\ stderr_open[w]
    /\ written < MaxLines
    /\ \E l \in lines :
          /\ stderr' = [stderr EXCEPT ![w] = Append(@, l)]
          /\ wrote' = [wrote EXCEPT ![w] = Append(@, l)]
    /\ written' = written + 1
    /\ UNCHANGED <<child, signalled, stderr_open>>
    /\ ChildFrame

ChildWrite(w) == ChildWriteFrom(w, LineSet)

ChildWriteMore(w) == ChildWriteFrom(w, MoreLineSet)

\* The child closes its stderr and keeps running.
ChildCloseStderr(w) ==
    /\ child[w] = "alive"
    /\ stderr_open[w]
    /\ stderr_open' = [stderr_open EXCEPT ![w] = FALSE]
    /\ UNCHANGED <<child, signalled, stderr, written, wrote>>
    /\ ChildFrame

\* The child exits, of its own accord or on SIGTERM.
ChildExit(w) ==
    /\ child[w] = "alive"
    /\ child' = [child EXCEPT ![w] = "exited"]
    /\ stderr_open' = [stderr_open EXCEPT ![w] = FALSE]
    /\ UNCHANGED <<signalled, stderr, written, wrote>>
    /\ ChildFrame

Child(w) ==
    \/ ChildWrite(w)
    \/ ChildCloseStderr(w)
    \/ ChildExit(w)

\* ------------------------------------------------------ specification

Next ==
    \/ start_connection(MaxStarts)
    \/ stop_connection
    \/ Deliver
    \/ \E w \in Workers : run(w)
    \/ \E w \in Workers : Child(w)

Spec == Init /\ [][Next]_vars

\* The same application, observed for one more session.
NextMore ==
    \/ start_connection(MoreStarts)
    \/ stop_connection
    \/ Deliver
    \/ \E w \in Workers : run(w)
    \/ \E w \in Workers : Child(w)

SpecMore == Init /\ [][NextMore]_vars

\* The same application, observed with more kinds of lines.
NextLines ==
    \/ start_connection(MaxStarts)
    \/ stop_connection
    \/ Deliver
    \/ \E w \in Workers : run(w)
    \/ \E w \in Workers : ChildWriteMore(w) \/ ChildCloseStderr(w) \/ ChildExit(w)

SpecLines == Init /\ [][NextLines]_vars

\* The child of worker w exits on the SIGTERM it has been sent.
ExitOnSignal(w) == signalled[w] /\ ChildExit(w)

\* What the scheduling grants: a thread that can run does run (the worker
\* thread, and the GUI thread inside stop()), the event loop hands over
\* the queued signals, and ssh exits on SIGTERM.  The event loop takes
\* clicks and queued signals in the order they came, so that no run of
\* clicks keeps a queued signal waiting for ever: hence the strong
\* fairness of Deliver, which each stop() interrupts.  Nothing obliges
\* the user to click, nor ssh to write, close its stderr or exit unasked.
Fairness ==
    /\ \A w \in Workers : WF_vars(run(w))
    /\ \A w \in Workers : WF_vars(ExitOnSignal(w))
    /\ SF_vars(Deliver)
    /\ WF_vars(StopTerminate \/ StopWaitJoined \/ StopWaitTimeout)

\* The application under this scheduling.
SpecFair == Spec /\ Fairness

\* The same, observed for one more session.
SpecMoreFair == SpecMore /\ Fairness

\* ------------------------------------- src/proxy_app.py: compare_versions

\* A string without a dot, as a component of a version: the decimal
\* literals that int() accepts among them, and their values.
IntLiterals == {"0", "1", "2", "10"}

int(x) ==
    CASE x = "0" -> 0
      [] x = "1" -> 1
      [] x = "2" -> 2
      [] x = "10" -> 10

\* What the callers pass as components: numbers whose order as numbers is
\* not their order as strings, and a component that is no number.
Components == {"0", "2", "10", "x"}

\* version.split('.') of the versions compared: one component at least.
Versions == UNION {[1..n -> Components] : n \in 1..MaxParts}

\* while len(parts) < 3: parts.append(0)
RECURSIVE pad(_)
pad(parts) == IF Len(parts) < 3 THEN pad(Append(parts, 0)) ELSE parts

\* parts[:3]
FirstThree(parts) == SubSeq(parts, 1, 3)

\* for a, b in zip(...): if a > b: return 1; if a < b: return -1
\* and return 0 after the loop
RECURSIVE zip_loop(_, _)
zip_loop(p1, p2) ==
    IF p1 = <<>> \/ p2 = <<>> THEN 0
    ELSE IF Head(p1) > Head(p2) THEN 1
    ELSE IF Head(p1) < Head(p2) THEN -1
    ELSE zip_loop(Tail(p1), Tail(p2))

compare_versions_NoPadding(v1, v2) ==
    IF \E i \in 1..Len(v1) : v1[i] \notin IntLiterals THEN 0
    ELSE IF \E i \in 1..Len(v2) : v2[i] \notin IntLiterals THEN 0
    ELSE zip_loop([i \in 1..Len(v1) |-> int(v1[i])], [i \in 1..Len(v2) |-> int(v2[i])])

\* compare_versions(version1, version2): int() of a component that is no
\* number raises ValueError, for which 0 is returned.
compare_versions(v1, v2) ==
    IF \E i \in 1..Len(v1) : v1[i] \notin IntLiterals THEN 0
    ELSE IF \E i \in 1..Len(v2) : v2[i] \notin IntLiterals THEN 0
    ELSE LET v1_parts == pad([i \in 1..Len(v1) |-> int(v1[i])])
             v2_parts == pad([i \in 1..Len(v2) |-> int(v2[i])])
         IN  zip_loop(FirstThree(v1_parts), FirstThree(v2_parts))

\* A call of compare_versions on two versions.
InitVersions ==
    /\ env_creds = FALSE
    /\ TunnelIdle
    /\ UpdateIdle
    /\ RegistryIdle
    /\ version1 \in Versions
    /\ version2 \in Versions
    /\ cmp_pc = "call"
    /\ returned = 0

CallCompareVersions ==
    /\ cmp_pc = "call"
    /\ returned' = compare_versions(version1, version2)
    /\ cmp_pc' = "returned"
    /\ UNCHANGED <<version1, version2, update_vars, registry_vars, tunnel_vars>>

SpecVersions == InitVersions /\ [][CallCompareVersions]_vars

\* ------------------------------------ src/proxy_app.py: update checks

APP_VERSION == <<"1", "0", "0">>

\* tag_name of the latest release, as the list tag_name.split('.'): no
\* tag, the version in use, newer ones with and without the leading v and
\* with one component or three, and one that is no version.
TagNames ==
    { <<"">>, <<"1", "0", "0">>, <<"v2", "0", "0">>, <<"2">>, <<"x">> }

\* The values of skip_update_version that an earlier run may have stored.
StoredSkips == { <<"">>, <<"2", "0", "0">>, <<"2">> }

\* .lstrip('v'), which stops at the first dot
lstrip_v(tag) ==
    [tag EXCEPT ![1] = CASE @ = "v2" -> "2"
                         [] @ = "v" -> ""
                         [] OTHER -> @]

\* The truth value of a string: it is not empty.
Truthy(v) == v /= <<"">>

UpdateEv(kind, src, status, version) ==
    [kind |-> kind, src |-> src, status |-> status, version |-> version]

\* A message box: by is 0 for the automatic check, else the manual check.
Box(kind, by, version) == [kind |-> kind, by |-> by, version |-> version]

\* ProxyManager.__init__ has run: the window is up and the UpdateChecker
\* thread started, with whatever skip_update_version the settings hold.
InitUpdate ==
    /\ env_creds = FALSE
    /\ TunnelIdle
    /\ CompareIdle
    /\ RegistryIdle
    /\ skip_update_version \in StoredSkips
    /\ auto_pc = "request"
    /\ manual_pc = [c \in Checks |-> "none"]
    /\ manual_connected = [c \in Checks |-> FALSE]
    /\ manual_update_thread = 0
    /\ wait_dialog = 0
    /\ checks = 0
    /\ update_queue = <<>>
    /\ shown = <<>>
    /\ cancelled = [c \in Checks |-> "no"]

UpdateFrame == UNCHANGED <<tunnel_vars, compare_vars, registry_vars>>

\* `latest and compare_versions(latest, APP_VERSION) > 0`
IsNewer(latest) == Truthy(latest) /\ compare_versions(latest, APP_VERSION) > 0

\* UpdateChecker.run: the request fails, or answers something else than
\* 200 (tag_found false), or answers 200 with a tag name.
UpdateCheckerRun ==
    /\ auto_pc = "request"
    /\ auto_pc' = "done"
    /\ \E tag_found \in BOOLEAN, tag \in TagNames :
          update_queue' =
              IF tag_found /\ IsNewer(lstrip_v(tag))
              THEN Append(update_queue, UpdateEv("update_available", 0, "ok", lstrip_v(tag)))
              ELSE update_queue
    /\ UNCHANGED <<skip_update_version, manual_pc, manual_connected, manual_update_thread,
                   wait_dialog, checks, shown, cancelled>>
    /\ UpdateFrame

\* show_update_notification(new_version): the message box, and the
\* setting stored when the user ticks its checkbox.  skip is the setting
\* as it is when the box opens.
show_update_notification(new_version, by, skip) ==
    /\ shown' = Append(shown, Box("update", by, new_version))
    /\ \E checked \in BOOLEAN :
          skip_update_version' = IF checked THEN new_version ELSE skip

SkipAllows_Always(skip_version, new_version) == TRUE

\* `if skip_version != new_version`
SkipAllows(skip_version, new_version) == skip_version /= new_version

\* ProxyManager.on_update_available, for the queued signal
on_update_available ==
    /\ update_queue /= <<>>
    /\ Head(update_queue).kind = "update_available"
    /\ update_queue' = Tail(update_queue)
    /\ IF SkipAllows(skip_update_version, Head(update_queue).version)
       THEN show_update_notification(Head(update_queue).version, 0, skip_update_version)
       ELSE UNCHANGED <<shown, skip_update_version>>
    /\ UNCHANGED <<auto_pc, manual_pc, manual_connected, manual_update_thread,
                   wait_dialog, checks, cancelled>>
    /\ UpdateFrame

\* QThread.isRunning() of the thread of manual check c
ManualRunning(c) == manual_pc[c] \in {"request", "emitted"}

\* `self._manual_update_thread and self._manual_update_thread.isRunning()`
ManualThreadRunning == manual_update_thread /= 0 /\ ManualRunning(manual_update_thread)

\* check_updates_manually while the thread of an earlier check runs
CheckUpdatesManuallyBusy ==
    /\ wait_dialog = 0
    /\ update_queue = <<>>
    /\ ManualThreadRunning
    /\ UNCHANGED vars

\* check_updates_manually: the progress dialog is shown, the thread
\* created, connected and started.  The progress dialog is modal, and so
\* are the message boxes, which hand over the queued signals while they
\* are up: the menu is clicked with no dialog open and no signal queued.
check_updates_manually ==
    /\ wait_dialog = 0
    /\ update_queue = <<>>
    /\ ~ManualThreadRunning
    /\ checks < MaxChecks
    /\ checks' = checks + 1
    /\ wait_dialog' = checks + 1
    /\ manual_update_thread' = checks + 1
    /\ manual_pc' = [manual_pc EXCEPT ![checks + 1] = "request"]
    /\ manual_connected' = [manual_connected EXCEPT ![checks + 1] = TRUE]
    /\ UNCHANGED <<skip_update_version, auto_pc, update_queue, shown, cancelled>>
    /\ UpdateFrame

\* What ManualUpdateChecker.run emits: 404, another failure, or 200 with
\* a tag name.
ManualResults ==
    { UpdateEv("finished_check", 0, "no_releases", <<"">>),
      UpdateEv("finished_check", 0, "error", <<"">>) }
    \cup { IF Truthy(lstrip_v(tag))
           THEN UpdateEv("finished_check", 0, "ok", lstrip_v(tag))
           ELSE UpdateEv("finished_check", 0, "error", <<"">>) : tag \in TagNames }

\* ManualUpdateChecker.run up to its emit: the signal is queued for the
\* slot if it is still connected.
ManualCheckerRun(c) ==
    /\ manual_pc[c] = "request"
    /\ manual_pc' = [manual_pc EXCEPT ![c] = "emitted"]
    /\ \E result \in ManualResults :
          update_queue' =
              IF manual_connected[c]
              THEN Append(update_queue, [result EXCEPT !.src = c])
              ELSE update_queue
    /\ UNCHANGED <<skip_update_version, auto_pc, manual_connected, manual_update_thread,
                   wait_dialog, checks, shown, cancelled>>
    /\ UpdateFrame

\* ManualUpdateChecker.run returns: the thread is no longer running.
ManualCheckerReturn(c) ==
    /\ manual_pc[c] = "emitted"
    /\ manual_pc' = [manual_pc EXCEPT ![c] = "done"]
    /\ UNCHANGED <<skip_update_version, auto_pc, manual_connected, manual_update_thread,
                   wait_dialog, checks, update_queue, shown, cancelled>>
    /\ UpdateFrame

\* ProxyManager._on_manual_update_finished(result), for the queued signal
on_manual_update_finished ==
    /\ update_queue /= <<>>
    /\ Head(update_queue).kind = "finished_check"
    /\ update_queue' = Tail(update_queue)
    /\ wait_dialog' = 0
    /\ LET result == Head(update_queue)
       IN  IF result.status = "ok"
           THEN IF IsNewer(result.version)
                THEN show_update_notification(result.version, result.src, <<"">>)
                ELSE /\ shown' = Append(shown, Box("no_updates", result.src, <<"">>))
                     /\ UNCHANGED skip_update_version
           ELSE /\ shown' = Append(shown, Box(result.status, result.src, <<"">>))
                /\ UNCHANGED skip_update_version
    /\ manual_update_thread' = 0
    /\ UNCHANGED <<auto_pc, manual_pc, manual_connected, checks, cancelled>>
    /\ UpdateFrame

\* The queue without the signals of check c.
WithoutSignalsOf(c) == SelectSeq(update_queue, LAMBDA e : e.src /= c)

\* ProxyManager._cancel_manual_update, on the Cancel button of the
\* progress dialog: the signal is disconnected if the thread still runs.
\* Whether a signal that is already queued at the disconnect still
\* reaches the slot is left open: both outcomes are allowed.
cancel_manual_update ==
    /\ wait_dialog /= 0
    /\ IF ManualThreadRunning
       THEN /\ manual_connected' = [manual_connected EXCEPT ![manual_update_thread] = FALSE]
            /\ update_queue' \in {update_queue, WithoutSignalsOf(manual_update_thread)}
       ELSE UNCHANGED <<manual_connected, update_queue>>
    /\ cancelled' = [cancelled EXCEPT ![wait_dialog] =
                        IF ManualThreadRunning THEN "running" ELSE "finished"]
    /\ wait_dialog' = 0
    /\ shown' = Append(shown, Box("cancelled", wait_dialog, <<"">>))
    /\ UNCHANGED <<skip_update_version, auto_pc, manual_pc, manual_update_thread, checks>>
    /\ UpdateFrame

NextUpdate ==
    \/ UpdateCheckerRun
    \/ on_update_available
    \/ CheckUpdatesManuallyBusy
    \/ check_updates_manually
    \/ \E c \in Checks : ManualCheckerRun(c)
    \/ \E c \in Checks : ManualCheckerReturn(c)
    \/ on_manual_update_finished
    \/ cancel_manual_update

SpecUpdate == InitUpdate /\ [][NextUpdate]_vars

\* ------------------------- src/proxy_app.py: the system proxy settings

\* Addresses the user can set in the settings dialog.
Addresses == {DefaultAddress, "127.0.0.1:1080", "10.0.0.2:3128"}

\* The two values of the registry key, as one record.
Registry == [ProxyEnable |-> ProxyEnable, ProxyServer |-> ProxyServer]

\* winreg.SetValueEx(key, name, 0, type, value)
SetValueEx(reg, name, value) == [reg EXCEPT ![name] = value]

\* The registry after the first n of the writes have been made, in order.
RECURSIVE ApplyWrites(_, _, _)
ApplyWrites(reg, writes, n) ==
    IF n = 0 \/ writes = <<>> THEN reg
    ELSE ApplyWrites(SetValueEx(reg, Head(writes)[1], Head(writes)[2]), Tail(writes), n - 1)

\* The calls of winreg that can raise OSError in a function that makes
\* the writes: ConnectRegistry, OpenKey, and SetValueEx on each value.
RegistrySteps(writes) ==
    {"ConnectRegistry", "OpenKey"} \cup {writes[i][1] : i \in 1..Len(writes)}

\* The writes made before the call that raises: none when the key could
\* not be opened, those before the value named, all of them otherwise.
Completed(failed, writes) ==
    IF failed \in {"ConnectRegistry", "OpenKey"} THEN 0
    ELSE IF \E i \in 1..Len(writes) : writes[i][1] = failed
         THEN (CHOOSE i \in 1..Len(writes) : writes[i][1] = failed) - 1
         ELSE Len(writes)

\* The SetValueEx calls of enable_proxy, in order.
EnableWrites == <<<<"ProxyEnable", 1>>, <<"ProxyServer", proxy_address>>>>

\* The SetValueEx call of disable_proxy.
DisableWrites == <<<<"ProxyEnable", 0>>>>

\* is_proxy_enabled: bool(ProxyEnable), or False when the read raises.
is_proxy_enabled(read_ok) == read_ok /\ ProxyEnable /= 0

\* ProxyManager constructed: the registry holds what the system was left
\* with, the address comes from the stored settings and the flag from
\* is_proxy_enabled.
InitProxy ==
    /\ env_creds = FALSE
    /\ TunnelIdle
    /\ CompareIdle
    /\ UpdateIdle
    /\ ProxyEnable \in {0, 1}
    /\ ProxyServer \in Addresses \cup {""}
    /\ proxy_address \in Addresses
    /\ \E read_ok \in BOOLEAN : proxy_enabled = is_proxy_enabled(read_ok)
    /\ proxy_call = NoCall

ProxyFrame == UNCHANGED <<tunnel_vars, compare_vars, update_vars>>

\* A call of enable_proxy or disable_proxy: the writes are made in order
\* up to the call that raises OSError, if one does (failed names it);
\* the flag is assigned after the last write only, and the failure of
\* refresh_system_settings is caught inside it.
ProxyCall(op, writes, flag) ==
    \E failed \in {"none"} \cup RegistrySteps(writes) :
        LET after == ApplyWrites(Registry, writes, Completed(failed, writes))
        IN  /\ ProxyEnable' = after.ProxyEnable
            /\ ProxyServer' = after.ProxyServer
            /\ proxy_enabled' = IF failed = "none" THEN flag ELSE proxy_enabled
            /\ proxy_call' = [op |-> op, failed |-> failed]
            /\ UNCHANGED proxy_address
            /\ ProxyFrame

\* enable_proxy, the slot of connect_button, which update_ui_state
\* enables when the flag is off.
enable_proxy ==
    /\ ~proxy_enabled
    /\ ProxyCall("enable_proxy", EnableWrites, TRUE)

\* disable_proxy, the slot of disconnect_button, enabled when the flag is on.
disable_proxy ==
    /\ proxy_enabled
    /\ ProxyCall("disable_proxy", DisableWrites, FALSE)

\* open_settings with the dialog accepted: another address is stored.
open_settings ==
    /\ \E address \in Addresses : proxy_address' = address
    /\ UNCHANGED <<ProxyEnable, ProxyServer, proxy_enabled, proxy_call>>
    /\ ProxyFrame

NextProxy ==
    \/ enable_proxy
    \/ disable_proxy
    \/ open_settings

SpecProxy == InitProxy /\ [][NextProxy]_vars

\* ---------------------------------------------------------- properties

IsTrue(e) == e.kind = "connected" /\ e.ok

IsFalse(e) == e.kind = "connected" /\ ~e.ok

IsLog(e) == e.kind = "log"

IsTerminal(e) == e.kind = "finished" \/ IsFalse(e)

Count(s, P(_)) == Len(SelectSeq(s, P))

\* C1: once a stop() has returned on a worker whose connected(True) has
\* reached on_connected, the child process of that worker no longer runs.
\* (The Disconnect button is enabled by that notification only, so the stop
\* came after it.)
C1_StopEndsChild ==
    \A w \in Workers :
        (stop_returned[w] /\ Count(Delivered(w), IsTrue) > 0) => child[w] /= "alive"

\* C2: a worker whose stop flag is set emits no connected(True): no step
\* taken with the flag set adds one to what the worker has emitted.
C2_NoTrueAfterFlag ==
    [][\A w \in Workers :
          stop_requested[w] => Count(emitted'[w], IsTrue) <= Count(emitted[w], IsTrue)]_vars

\* C4: a worker on which a stop() has returned emits no further log line:
\* no step taken after the return adds one to what the worker has emitted.
C4_NoLogAfterStop ==
    [][\A w \in Workers :
          stop_returned[w] => Count(emitted'[w], IsLog) <= Count(emitted[w], IsLog)]_vars

\* C9: at most one child ssh process is alive at a time.
C9_OneChildAlive == Cardinality({w \in Workers : child[w] = "alive"}) <= 1

\* C3: a worker first stopped before it had emitted any connected signal
\* hands the caller one terminal notification (connected(False) or
\* finished) and no more, and has handed it over once its thread has
\* finished and nothing of it is left in the queue.
C3_OneTerminal ==
    \A w \in Workers :
        early_stop[w] =>
            /\ Count(Delivered(w), IsTerminal) <= 1
            /\ (Finished(w) /\ Pending(w) = <<>>) => Count(Delivered(w), IsTerminal) = 1

\* The line that names the failure, before each kind of connected(False).
FailureLogs ==
    { "No se encontro la instancia", "La instancia no tiene un DNS publico",
      "Error al obtener DNS publico", "Error: 'ssh' no se encuentra en PATH.",
      "Error inesperado en SSHWorker", "SSH finalizo (rc=0): ",
      "SSH finalizo (rc=255): ", "SSH finalizo (rc=-15): " }

\* Each connected(False) in s comes right after a log line whose text is
\* one of tags.
FalseAfterLog(s, tags) ==
    \A i \in 1..Len(s) :
        IsFalse(s[i]) => i > 1 /\ IsLog(s[i - 1]) /\ s[i - 1].tag \in tags

\* C5: a worker whose Popen raised FileNotFoundError holds no process
\* handle and has no child, emits connected(False) once (and has done so
\* when its thread finishes), right after the line that says ssh is not
\* in PATH.
C5_MissingExecutable ==
    \A w \in Workers :
        spawned[w] = "notfound" =>
            /\ ~proc[w]
            /\ child[w] = "none"
            /\ Count(emitted[w], IsFalse) <= 1
            /\ Finished(w) => Count(emitted[w], IsFalse) = 1
            /\ FalseAfterLog(emitted[w], {"Error: 'ssh' no se encuentra en PATH."})

C5_Witness ==
    \E w \in Workers :
        spawned[w] = "notfound" /\ Finished(w) /\ Count(emitted[w], IsFalse) = 1

\* C6: a worker whose lookup failed, in whichever way, never reaches Popen
\* and has no child, and emits connected(False) once (and has done so when
\* its thread finishes).
C6_ResolutionFailure ==
    \A w \in Workers :
        resolved[w] \notin {"none", "ok"} =>
            /\ spawned[w] = "none"
            /\ child[w] = "none"
            /\ ~proc[w]
            /\ Count(emitted[w], IsFalse) <= 1
            /\ Finished(w) => Count(emitted[w], IsFalse) = 1

C6_Witness ==
    \E w \in Workers :
        resolved[w] = "uninitialised" /\ Finished(w) /\ Count(emitted[w], IsFalse) = 1

\* C7: every connected(False) that reaches on_connected comes, among the
\* signals of its worker, right after a log line that names the failure.
C7_FalseAfterFailureLog == \A w \in Workers : FalseAfterLog(Delivered(w), FailureLogs)

C7_Witness == \E w \in Workers : Count(Delivered(w), IsFalse) > 0

\* C8: while a worker is held, start_connection can do nothing but refuse:
\* it has no step that changes any part of the state (no worker created,
\* no thread started, reference, flags and buttons as they were), and with
\* the Connect button enabled the refusal is what a click gets.
C8_StartRefused ==
    (mainpc = "idle" /\ worker /= 0) =>
        /\ ~ENABLED <<start_connection(MoreStarts)>>_vars
        /\ connect_btn => ENABLED StartConnectionRejected

C8_Witness == mainpc = "idle" /\ worker /= 0 /\ connect_btn /\ starts < MaxStarts

OneLineThenSilence(w) ==
    /\ Len(wrote[w]) = 1
    /\ LineMatches(rstrip(wrote[w][1]))
    /\ child[w] = "alive"
    /\ stderr_open[w]
    /\ ~stop_requested[w]

\* C11: while the child has written one recognised line and keeps silent,
\* and no stop is requested, the worker emits connected(True) once (not
\* more at any time, and once by the time it waits for the next line), its
\* thread stays inside the read loop, and the caller holds the worker.
C11_SupervisedInSilence ==
    \A w \in Workers :
        OneLineThenSilence(w) =>
            /\ Count(emitted[w], IsTrue) <= 1
            /\ Count(emitted[w], IsFalse) = 0
            /\ Blocked(w) => Count(emitted[w], IsTrue) = 1
            /\ pc[w] \in {"store_proc", "read", "check_stop", "emit_log", "classify"}
            /\ running[w]
            /\ worker = w

C11_Witness ==
    \E w \in Workers :
        OneLineThenSilence(w) /\ Blocked(w) /\ Count(Delivered(w), IsTrue) = 1

\* The line l, as the child wrote it, contains one of the three words,
\* letter for letter.
Recognised(l) ==
    \E word \in {PatWarning, PatAuthorizedKeys, PatConnecting} :
        \E i \in 1..Len(l) :
            /\ i + Len(word) - 1 <= Len(l)
            /\ \A k \in 1..Len(word) : l[i + k - 1] = word[k]

\* C12: the step of the read loop that follows the forwarding of a line
\* emits connected(True), and nothing else, when the line contains one of
\* the three words, and emits nothing when it contains none.
C12_TrueIffRecognised ==
    [][\A w \in Workers :
          (pc[w] = "classify" /\ pc'[w] /= "classify") =>
              emitted'[w] = IF Recognised(line[w])
                            THEN Append(emitted[w], ConnectedEv(w, TRUE))
                            ELSE emitted[w]]_vars

C12_Witness ==
    \E w \in Workers :
        /\ pc[w] = "read"
        /\ wrote[w] = <<LowerCaseLine, AuthorizedKeysLine>>
        /\ stderr[w] = <<>>
        /\ Count(emitted[w], IsLog) = 4
        /\ Count(emitted[w], IsTrue) = 1

\* The thread of worker w moves on from the position at.
Leaves(w, at) == pc[w] = at /\ pc'[w] /= at

\* C13: a worker that finds, at the end of the stream, its stop flag unset
\* goes on to poll(); one whose poll() finds the child running goes on to
\* emit connected(True), then returns, without a connected(False) in the
\* whole session.
C13_FallbackTrue ==
    [][\A w \in Workers :
          /\ (Leaves(w, "after_loop") /\ ~stop_requested[w]) => pc'[w] = "poll"
          /\ (Leaves(w, "poll") /\ child[w] = "alive") => pc'[w] = "emit_fallback"
          /\ Leaves(w, "emit_fallback") =>
                /\ emitted'[w] = Append(emitted[w], ConnectedEv(w, TRUE))
                /\ Count(emitted'[w], IsFalse) = 0
                /\ pc'[w] = "return"]_vars

C13_Witness ==
    \E w \in Workers :
        /\ pc[w] = "return"
        /\ wrote[w] = <<>>
        /\ child[w] = "alive"
        /\ ~stop_requested[w]
        /\ Count(emitted[w], IsTrue) = 1

\* The last signal of s.
Last(s) == s[Len(s)]

\* C14: a worker that finds, at the end of the stream, its stop flag set
\* returns without emitting; one whose poll() finds the child exited emits
\* the log line with the exit status and then connected(False), and
\* returns.
C14_ExitCodeThenFalse ==
    [][\A w \in Workers :
          /\ (Leaves(w, "after_loop") /\ stop_requested[w]) =>
                pc'[w] = "return" /\ emitted'[w] = emitted[w]
          /\ (Leaves(w, "poll") /\ child[w] /= "alive") =>
                pc'[w] = "log_rc" /\ rc'[w] \in {"0", "255", "-15"}
          /\ Leaves(w, "log_rc") =>
                /\ Len(emitted'[w]) = Len(emitted[w]) + 1
                /\ IsLog(Last(emitted'[w]))
                /\ Last(emitted'[w]).tag =
                      (CASE rc[w] = "0" -> "SSH finalizo (rc=0): "
                         [] rc[w] = "255" -> "SSH finalizo (rc=255): "
                         [] rc[w] = "-15" -> "SSH finalizo (rc=-15): ")
                /\ pc'[w] = "rc_false"
          /\ Leaves(w, "rc_false") =>
                /\ emitted'[w] = Append(emitted[w], ConnectedEv(w, FALSE))
                /\ pc'[w] = "return"]_vars

C14_Witness ==
    \E w \in Workers :
        /\ pc[w] = "return"
        /\ rc[w] = "255"
        /\ child[w] = "exited"
        /\ ~stop_requested[w]
        /\ IsFalse(Last(emitted[w]))

\* The log lines of the end of the stream, one for each exit status.
ExitCodeLogs ==
    {"SSH finalizo (rc=0): ", "SSH finalizo (rc=255): ", "SSH finalizo (rc=-15): "}

\* C15: among the signals of one worker, the connected(False) of the end
\* of the stream (the one that follows the exit-status line) does not come
\* after a connected(True).
C15_NoFalseAfterTrue ==
    \A w \in Workers :
        \A i, j \in 1..Len(emitted[w]) :
            (i < j /\ IsTrue(emitted[w][i]) /\ emitted[w][j - 1].tag \in ExitCodeLogs)
                => ~IsFalse(emitted[w][j])

\* C16: the exit-status line of a worker whose child has written something
\* contains the text of the last line the child wrote.
C16_FailureLogHasLastText ==
    \A w \in Workers :
        \A i \in 1..Len(emitted[w]) :
            (emitted[w][i].tag \in ExitCodeLogs /\ wrote[w] /= <<>>) =>
                Contains(strip(Last(wrote[w])), emitted[w][i].text)

\* C17: the child of a worker whose run() has returned is not running.
C17_FinishedWorkerNoChild ==
    \A w \in Workers : Finished(w) => child[w] /= "alive"

\* C18: the stop flag of a worker is unset as long as the worker has not
\* been created and when it is created, and once set it stays set in every
\* step, for as long as the worker object exists.
C18_FlagMonotonic ==
    [][\A w \in Workers :
          /\ pc[w] = "none" => ~stop_requested'[w]
          /\ (stop_requested[w] /\ pc'[w] /= "deleted") => stop_requested'[w]]_vars

C18_Witness ==
    \E w \in Workers : stop_requested[w] /\ stop_returned[w] /\ pc[w] = "done"

\* C19: a worker whose Popen raised something other than
\* FileNotFoundError, or whose read of the stream raised, goes to the
\* handler of run(), which emits the log line of the unexpected error, then
\* connected(False), and then lets run() return like any other run.
C19_ExceptionsCaught ==
    [][\A w \in Workers :
          /\ (Leaves(w, "spawn") /\ spawned'[w] = "oserror") => pc'[w] = "exc_log"
          /\ (Leaves(w, "read") /\ stderr[w] /= <<>> /\ Head(stderr[w]) = BadLine) =>
                pc'[w] = "exc_log"
          /\ Leaves(w, "exc_log") =>
                /\ emitted'[w] =
                      Append(emitted[w], LogEv(w, "Error inesperado en SSHWorker"))
                /\ pc'[w] = "exc_false"
          /\ Leaves(w, "exc_false") =>
                /\ emitted'[w] = Append(emitted[w], ConnectedEv(w, FALSE))
                /\ pc'[w] = "return"
                /\ running'[w]]_vars

C19_Witness ==
    \E w \in Workers :
        /\ spawned[w] = "oserror"
        /\ pc[w] = "done"
        /\ Len(emitted[w]) >= 3
        /\ IsFalse(emitted[w][Len(emitted[w]) - 1])
        /\ Last(emitted[w]) = FinishedEv(w)

IsSshLog(e) == e.kind = "log" /\ e.tag = "SSH: "

\* C20: of each worker, the signals that have reached the slots and those
\* still queued are, in this order, the signals it has emitted; the
\* "SSH: " lines that have reached append_log are the lines its child
\* wrote, in the order it wrote them, each without its trailing blanks;
\* and what reaches the slots right after a line with one of the three
\* words is the connected(True) of that line, before any later line.
C20_LinesInOrder ==
    \A w \in Workers :
        LET D == Delivered(w)
            S == SelectSeq(D, IsSshLog)
        IN  /\ Len(Pending(w)) <= Len(emitted[w]) => emitted[w] = D \o Pending(w)
            /\ Len(S) <= Len(wrote[w])
            /\ \A k \in 1..Len(S) : S[k].text = rstrip(wrote[w][k])
            /\ \A i \in 1..(Len(D) - 1) :
                  (IsSshLog(D[i]) /\ Recognised(D[i].text)) => IsTrue(D[i + 1])

C20_Witness ==
    \E w \in Workers :
        /\ Len(wrote[w]) = 2
        /\ wrote[w][1] /= wrote[w][2]
        /\ Count(Delivered(w), IsSshLog) = 2
        /\ Count(Delivered(w), IsTrue) = 1

\* The "SSH: " line of a forwarded line that holds one of the three words.
IsMatchingLog(e) == IsSshLog(e) /\ Recognised(e.text)

\* C21: a turn of the read loop that passes the stop check emits the
\* "SSH: " line of the line read and nothing else, then at most one signal,
\* which is a connected; the other steps of the loop emit nothing; and at
\* the head of the loop the worker has emitted as many connected(True) as
\* "SSH: " lines that hold one of the three words, however many there are.
C21_OneTruePerMatchingLine ==
    [][\A w \in Workers :
          /\ (Leaves(w, "read") \/ Leaves(w, "check_stop")) => emitted'[w] = emitted[w]
          /\ (Leaves(w, "check_stop") /\ ~stop_requested[w]) => pc'[w] = "emit_log"
          /\ Leaves(w, "emit_log") =>
                /\ emitted'[w] = Append(emitted[w], Ev(w, "log", "SSH: ", FALSE, rstrip(line[w])))
                /\ pc'[w] = "classify"
          /\ Leaves(w, "classify") =>
                /\ \/ emitted'[w] = emitted[w]
                   \/ /\ Len(emitted'[w]) = Len(emitted[w]) + 1
                      /\ SubSeq(emitted'[w], 1, Len(emitted[w])) = emitted[w]
                      /\ IsConnected(Last(emitted'[w]))
                /\ pc'[w] = "read"
          /\ pc'[w] = "read" =>
                Count(emitted'[w], IsTrue) = Count(emitted'[w], IsMatchingLog)]_vars

C21_Witness ==
    \E w \in Workers :
        /\ pc[w] = "read"
        /\ wrote[w] = <<WarningLine, WarningLine>>
        /\ Count(emitted[w], IsSshLog) = 2
        /\ Count(emitted[w], IsTrue) = 2

\* C22: a worker is created and its thread started only with an instance
\* id, a key path, a user name and a region that are not empty.
C22_FieldsFilledAtLaunch ==
    [][\A w \in Workers :
          (pc[w] = "none" /\ pc'[w] = "resolve") =>
              /\ instance_id'[w] /= ""
              /\ key_path'[w] /= ""
              /\ username'[w] /= ""
              /\ region'[w] /= ""]_vars

\* C23: stop() sets the stop flag first; its call of terminate(), whether
\* it sends the signal or raises, is followed by the wait and leaves the
\* flag set, and signals no child but that of the worker; the wait is
\* followed by the return of stop(), with the flag still set and nothing
\* of the caller changed, whether the thread has finished or not.
C23_StopCompletes ==
    [][/\ (mainpc = "idle" /\ mainpc' /= "idle") =>
             mainpc' = "stop_terminate" /\ stop_requested'[worker]
       /\ mainpc = "stop_terminate" =>
             /\ mainpc' \in {"stop_terminate", "stop_wait"}
             /\ stop_requested'[worker]
             /\ \A w \in Workers : signalled'[w] /= signalled[w] => w = worker /\ proc[w]
       /\ (mainpc = "stop_wait" /\ mainpc' /= "stop_wait") =>
             /\ mainpc' = "idle"
             /\ stop_requested'[worker]
             /\ stop_returned'[worker]
             /\ UNCHANGED <<worker, connect_btn, disconnect_btn, queue>>]_vars

\* stop() has returned on a worker whose thread is still in the read
\* loop: the handle was stored before the stop, the child runs and was
\* not signalled, so terminate() raised.
C23_Witness ==
    \E w \in Workers :
        /\ stop_returned[w]
        /\ mainpc = "idle"
        /\ stop_requested[w]
        /\ ~early_stop[w]
        /\ proc[w]
        /\ child[w] = "alive"
        /\ ~signalled[w]
        /\ running[w]
        /\ pc[w] = "read"

\* C24: a worker on which stop() has gone past its call of terminate()
\* while the thread had not yet stored the process handle (it was in the
\* lookup, in Popen, or between them) comes to the end of run(), with no
\* need of a second call of stop().
C24_StoppedEarlyFinishes ==
    \A w \in Workers :
        (worker = w /\ mainpc = "stop_wait" /\ running[w] /\ ~proc[w])
            ~> (Finished(w) \/ mainpc = "stop_terminate")

\* The caller's control state as MainWindow.__init__ leaves it: no worker
\* held, Connect enabled, Disconnect disabled.
ControlsReset == worker = 0 /\ connect_btn /\ ~disconnect_btn

\* C25: when the thread of the worker that the caller holds has finished,
\* the caller comes to hold no worker, with Connect enabled and Disconnect
\* disabled, and start_connection can then go through.
C25_ControlsResetAfterEnd ==
    \A w \in Workers :
        (worker = w /\ ~running[w]) ~>
            (ControlsReset /\ (starts < MaxStarts => ENABLED StartConnectionStarted(MaxStarts)))

\* Two sessions are over, all their signals have reached the slots, and
\* the controls are reset.
C25_Witness ==
    /\ ControlsReset
    /\ queue = <<>>
    /\ pc[1] = "deleted"
    /\ pc[2] = "deleted"
    /\ starts = 2

\* C26: in every state, the control state after two calls of
\* on_connected with the same argument, one right after the other, is the
\* control state after one call.
C26_LevelTriggered ==
    \A ok \in BOOLEAN :
        LET once == OnConnectedControls(ok, ControlState, worker /= 0 /\ ~running[worker])
            twice == OnConnectedControls(ok, once, once.worker /= 0 /\ ~running[once.worker])
        IN  twice = once

\* One connected(True) of a worker has reached on_connected, and the next
\* signal in the queue is another connected(True) of the same worker.
C26_Witness ==
    \E w \in Workers :
        /\ mainpc = "idle"
        /\ queue /= <<>>
        /\ Head(queue) = ConnectedEv(w, TRUE)
        /\ Len(Delivered(w)) > 0
        /\ Last(Delivered(w)) = ConnectedEv(w, TRUE)
        /\ ControlState = [worker |-> w, connect_btn |-> FALSE, disconnect_btn |-> TRUE]

\* Component i of version v as a number, 0 when v has no component i.
PartOrZero(v, i) == IF i <= Len(v) THEN int(v[i]) ELSE 0

\* Whether every component of v is a number.
AllNumbers(v) == \A i \in 1..Len(v) : v[i] \in IntLiterals

\* The places among the first three where v1 and v2 differ.
Differing(v1, v2) == {i \in 1..3 : PartOrZero(v1, i) /= PartOrZero(v2, i)}

\* C27: what compare_versions has returned is 0 when a component of
\* either version is no number; else 0 when the first three components,
\* missing ones counting as 0, are the same; else 1 or -1 as the first
\* version is the greater or the smaller at the first place where they
\* differ.
C27_CompareVersions ==
    cmp_pc = "returned" =>
        returned =
            IF ~AllNumbers(version1) \/ ~AllNumbers(version2) THEN 0
            ELSE IF Differing(version1, version2) = {} THEN 0
            ELSE LET k == CHOOSE i \in Differing(version1, version2) :
                              \A j \in Differing(version1, version2) : i <= j
                 IN  IF PartOrZero(version1, k) > PartOrZero(version2, k) THEN 1 ELSE -1

C27_Witness ==
    /\ cmp_pc = "returned"
    /\ version1 = <<"10">>
    /\ version2 = <<"2", "0", "0", "10">>
    /\ returned = 1

\* The message boxes that tell the result of a manual check.
ResultBoxes == {"update", "no_updates", "no_releases", "error"}

\* C28: no message box tells the result of a manual check that the user
\* cancelled when its thread had already finished (after the cancel, that
\* is: the progress dialog, and its Cancel button, are gone once a result
\* is told).
C28_CancelledResultIgnored ==
    \A c \in Checks :
        cancelled[c] = "finished" =>
            \A i \in 1..Len(shown) : ~(shown[i].by = c /\ shown[i].kind \in ResultBoxes)

\* Version v1 is newer than v2: all their components are numbers and, at
\* the first of the three places where they differ, v1 has the greater.
StrictlyNewer(v1, v2) ==
    /\ AllNumbers(v1)
    /\ AllNumbers(v2)
    /\ \E k \in Differing(v1, v2) :
          /\ \A j \in Differing(v1, v2) : k <= j
          /\ PartOrZero(v1, k) > PartOrZero(v2, k)

\* C29: a step that shows the notification of the automatic check shows
\* it for a version newer than APP_VERSION and other than the stored
\* skip_update_version; the slot of a manual check that has found a newer
\* version shows the notification of that version, whatever is stored,
\* and leaves the setting removed, or set to that version by the checkbox
\* of the notification itself.
C29_NotificationRules ==
    [][/\ (Len(shown') > Len(shown) /\ Last(shown').kind = "update" /\ Last(shown').by = 0) =>
             /\ StrictlyNewer(Last(shown').version, APP_VERSION)
             /\ Last(shown').version /= skip_update_version
       /\ (/\ update_queue /= <<>>
           /\ update_queue' = Tail(update_queue)
           /\ cancelled' = cancelled
           /\ Head(update_queue).kind = "finished_check"
           /\ Head(update_queue).status = "ok"
           /\ StrictlyNewer(Head(update_queue).version, APP_VERSION)) =>
             /\ shown' = Append(shown, Box("update", Head(update_queue).src,
                                            Head(update_queue).version))
             /\ skip_update_version' \in {<<"">>, Head(update_queue).version}]_vars

\* Both notifications have been shown, that of the automatic check and
\* then that of a manual check, and no version is stored as skipped.
C29_Witness ==
    /\ Len(shown) = 2
    /\ shown[1] = Box("update", 0, <<"2", "0", "0">>)
    /\ shown[2] = Box("update", 1, <<"2">>)
    /\ skip_update_version = <<"">>

\* C30: once run() is over and stop() has returned, the child of a worker
\* on which stop() was called before Popen had returned is not running.
C30_NoChildAfterEarlyStop ==
    \A w \in Workers :
        (unspawned_stop[w] /\ stop_returned[w] /\ Finished(w)) => child[w] /= "alive"

\* C31: a worker started after the caller initialised its credentials from
\* the form looks the address up with initialised credentials that are the
\* caller's, whatever the environment holds.
C31_WorkerUsesCallerCreds ==
    [][\A w \in Workers :
          (pc[w] = "resolve" /\ pc'[w] /= "resolve" /\ worker = w /\ creds = "form") =>
              /\ w_creds'[w] = creds
              /\ resolved'[w] /= "uninitialised"]_vars

\* C32: connected(False) is the last thing a worker says through log or
\* connected: what it has emitted after a connected(False) is QThread's
\* finished only, so no log, no connected(True) and no second
\* connected(False).
C32_FalseIsLast ==
    \A w \in Workers :
        \A i \in 1..Len(emitted[w]) :
            IsFalse(emitted[w][i]) =>
                \A j \in (i + 1)..Len(emitted[w]) : emitted[w][j].kind = "finished"

\* A run that has logged, reported the connection, reported its loss and
\* returned.
C32_Witness ==
    \E w \in Workers :
        LET n == Len(emitted[w])
        IN  /\ n >= 4
            /\ emitted[w][n].kind = "finished"
            /\ IsFalse(emitted[w][n - 1])
            /\ IsLog(emitted[w][n - 2])
            /\ \E i \in 1..(n - 3) : IsTrue(emitted[w][i])

\* C33: the connect button is enabled only while the caller holds no
\* worker, so that no click on it is turned down by the first check of
\* start_connection.
C33_ConnectOnlyWithoutWorker ==
    /\ connect_btn => worker = 0
    /\ ~ENABLED StartConnectionRejected

\* C34: the two buttons are never enabled together, and the disconnect
\* button is enabled only once a connected(True) of the worker the caller
\* holds has reached on_connected.
C34_DisconnectAfterOwnTrue ==
    /\ ~(connect_btn /\ disconnect_btn)
    /\ disconnect_btn =>
          /\ worker /= 0
          /\ \E i \in 1..Len(Delivered(worker)) : IsTrue(Delivered(worker)[i])

\* C35: a call of enable_proxy or disable_proxy in which a registry call
\* raises OSError leaves ProxyEnable, ProxyServer and the flag
\* proxy_enabled as they were; after a call in which none raises, the
\* flag is the truth value of ProxyEnable.
C35_FailedCallChangesNothing ==
    [][(enable_proxy \/ disable_proxy) =>
          IF proxy_call'.failed /= "none"
          THEN UNCHANGED <<ProxyEnable, ProxyServer, proxy_enabled>>
          ELSE proxy_enabled' = (ProxyEnable' /= 0)]_vars

=============================================================================
